---- MODULE Spec2Model ----
(***************************************************************************)
(* Model of the cutr position-list parser (parse_pos) and of the           *)
(* extraction functions (extract_chars, extract_fields) of                 *)
(* src/cutr/src/lib.rs.                                                    *)
(*                                                                         *)
(* A Rust &str is modelled as the sequence of its characters (one-char     *)
(* TLA+ strings) while it is parsed, and as the sequence of its UTF-8      *)
(* bytes (integers) while characters are extracted from it.  Error         *)
(* messages are TLA+ strings built by concatenation, the way format!       *)
(* builds them.                                                            *)
(***************************************************************************)
EXTENDS Integers, Sequences, FiniteSets, TLC

VARIABLES
    pc,         \* where the modelled call or process stands
    \* cutr, one function call
    range,      \* the selector string handed to parse_pos
    ret,        \* what parse_pos returned
    line,       \* the line handed to extract_chars / extract_bytes
    record,     \* the record handed to extract_fields
    positions,  \* the position list handed to an extraction function
    out,        \* what the extraction function returned
    \* one process (cutr; headr uses fsys, config, file_idx, stdout, stderr,
    \* run_ret and opens)
    argv,       \* the command line: the options and the file operands
    fsys,       \* the files by name: missing, or what reading them yields
    config,     \* what get_args returned
    file_idx,   \* run: index of the file of the current iteration
    row_idx,    \* run: index of the next line or record of that file
    wbuf,       \* run: the csv writer's buffer, not yet on standard output
    stdout,     \* the lines written to standard output
    stderr,     \* the lines written to standard error
    run_ret,    \* what run returned
    opens,      \* the names handed to open, in order
    \* grepr, one function call
    file,       \* the stream handed to find_lines
    pattern,    \* the pattern handed to find_lines
    matches,    \* what find_lines returned with invert_match = false
    matches_inv,\* what find_lines returned with invert_match = true
    paths,      \* the paths handed to find_files
    recursive,  \* the flag handed to find_files
    entries,    \* what find_files returned
    \* uniqr, one call of run
    in_file,    \* the input stream, or that it cannot be opened
    count_flag, \* config.count
    written,    \* what run wrote to its output, one item per write!
    uniq_ret    \* what run returned

cutVars == <<range, ret, line, record, positions, out>>

runVars == <<argv, fsys, config, file_idx, row_idx, wbuf, stdout, stderr,
             run_ret, opens>>

grepVars == <<file, pattern, matches, matches_inv, paths, recursive, entries>>

uniqVars == <<in_file, count_flag, written, uniq_ret>>

vars == <<pc, cutVars, runVars, grepVars, uniqVars>>

----------------------------------------------------------------------------
(* Bounds of the model *)

\* longest selector string handed to parse_pos
MaxLen == 5

\* characters selector strings are drawn from
Alphabet == {"0", "1", "2", "-", "+", ",", "a"}

Selectors == UNION {[1..n -> Alphabet] : n \in 0..MaxLen}

\* most characters in a line handed to extract_chars
MaxChars == 3

\* most fields in a record handed to extract_fields
MaxFields == 2

\* most ranges in a position list handed to an extraction function
MaxRanges == 2

\* largest end of such a range
MaxEnd == 3

\* code points lines are made of: 'a' (one byte in UTF-8), U+00E9 (two
\* bytes) and U+3042 (three bytes)
CodePoints == {97, 233, 12354}

Texts == UNION {[1..n -> CodePoints] : n \in 0..MaxChars}

\* field values records are made of
FieldValues == {"", "x", "y"}

Records == UNION {[1..n -> FieldValues] : n \in 0..MaxFields}

\* ranges as parse_pos builds them: start < end
Ranges == {r \in [start : 0..MaxEnd, end : 0..MaxEnd] : r.start < r.end}

PositionLists == UNION {[1..n -> Ranges] : n \in 0..MaxRanges}

\* selector strings given with -b, -c and -f: two that parse, one with an
\* inverted range, one with an illegal token
ArgSelectors == {<<"1">>, <<"1", "-", "2">>, <<"2", "-", "1">>, <<"a">>}

ArgOptions == {<<>>} \cup {<<s>> : s \in ArgSelectors}

\* delimiters given with -d: the default tab, a comma, two commas
ArgDelimiters == {<<"\t">>, <<",">>, <<",", ",">>}

\* most characters of an input stream of grepr or uniqr
MaxStream == 4

\* input streams of find_lines
StreamChars == {"a", "b", "\n"}

Streams == UNION {[1..n -> StreamChars] : n \in 0..MaxStream}

\* a stream, and whether reading fails once its characters are read (bytes
\* that are not valid UTF-8 after them)
GrepFiles == [data : Streams, broken : BOOLEAN]

\* patterns without metacharacters: they match where they occur
Patterns == {<<>>, <<"a">>, <<"a", "b">>}

\* input streams of uniqr
UniqChars == {"a", "b", " ", "\n"}

UniqStreams == UNION {[1..n -> UniqChars] : n \in 0..MaxStream}

\* the input of uniqr by name: its stream, or the error of opening it
UniqInputs ==
    {[name |-> "-", content |-> [tag |-> "Ok", val |-> s]] : s \in UniqStreams}
        \cup {[name |-> "f", content |-> [tag |-> "Ok", val |-> <<"a", "\n">>]],
              [name |-> "f",
               content |-> [tag |-> "Err",
                            err |-> "No such file or directory (os error 2)"]]}

\* most paths handed to find_files
MaxPaths == 3

\* paths: standard input, a regular file, a directory, a name that does
\* not exist, a name that is neither file nor directory (a device, a FIFO),
\* and a file in the directory written with a backslash
PathNames ==
    {<<"-">>, <<"f">>, <<"d">>, <<"n">>, <<"p">>, <<"d", "\\", "g">>}

PathLists == UNION {[1..n -> PathNames] : n \in 0..MaxPaths}

\* most file operands on a command line
MaxFiles == 2

\* most lines or records a file yields
MaxRows == 2

\* the names of the inputs: standard input and one named file
FileNames == {"-", "a"}

\* file operands: at most MaxFiles names, standard input at most once
FileLists ==
    {fl \in UNION {[1..n -> FileNames] : n \in 0..MaxFiles} :
        Cardinality({i \in 1..Len(fl) : fl[i] = "-"}) <= 1}

\* the line a file holds: "a<TAB>b" on standard input, U+3042 "<TAB>b" in
\* the named file
RowOf(name) == IF name = "-" THEN <<97, 9, 98>> ELSE <<227, 129, 130, 9, 98>>

\* the error a reader yields in place of a line or record
ReadError == [tag |-> "Err", err |-> "stream did not contain valid UTF-8"]

\* what reading a file yields, item by item
FileRows(name) ==
    UNION {[1..n -> {[tag |-> "Ok", val |-> RowOf(name)], ReadError}] :
               n \in 0..MaxRows}

\* a file: missing, or there with what reading it yields
FileStates(name) ==
    {[exists |-> TRUE, rows |-> r] : r \in FileRows(name)}
        \cup (IF name = "-" THEN {} ELSE {[exists |-> FALSE, rows |-> <<>>]})

FileSystems ==
    {fs \in [FileNames -> UNION {FileStates(n) : n \in FileNames}] :
        \A n \in FileNames : fs[n] \in FileStates(n)}

\* most bytes of an input of headr
MaxData == 2

\* largest count of lines or bytes configured for headr
MaxCount == 3

\* the bytes of headr's inputs: a letter, a newline, and a byte that begins
\* a two-byte character
HeadBytes == {97, 10, 195}

HeadData == UNION {[1..n -> HeadBytes] : n \in 0..MaxData}

\* the inputs of headr by name: missing (a named file only), or there with
\* their bytes
HeadFileSystems ==
    {fs \in [FileNames -> [exists : BOOLEAN, data : HeadData]] :
        /\ fs["-"].exists
        /\ \A n \in FileNames : ~fs[n].exists => fs[n].data = <<>>}

\* headr's Config: files is never empty (default "-"), lines and bytes are
\* positive, lines is 10 unless given, and clap rejects both given
HeadConfigs ==
    {c \in [files : FileLists \ {<<>>}, lines : (1..MaxCount) \cup {10},
            bytes : {<<>>} \cup {<<n>> : n \in 1..MaxCount}] :
        c.bytes # <<>> => c.lines = 10}

\* command lines handed to get_args
ArgLines ==
    [bytes : ArgOptions, chars : ArgOptions, fields : ArgOptions,
     delimiter : ArgDelimiters, files : {<<>>, <<"a">>}]

\* command lines of a whole cutr process: at most one selection option, the
\* default delimiter
CutArgLines ==
    {a \in [bytes : ArgOptions, chars : ArgOptions, fields : ArgOptions,
            delimiter : {<<"\t">>}, files : FileLists] :
        Cardinality({n \in {"bytes", "chars", "fields"} : a[n] # <<>>}) <= 1}

----------------------------------------------------------------------------
(* Result<T, Box<dyn Error>> *)

Ok(v) == [tag |-> "Ok", val |-> v]

Err(msg) == [tag |-> "Err", err |-> msg]

NoResult == [tag |-> "None"]

\* Range<usize>: start..end
Range(s, e) == [start |-> s, end |-> e]

----------------------------------------------------------------------------
(* Strings *)

is_digit(c) == c \in {"0", "1", "2", "3", "4", "5", "6", "7", "8", "9"}

to_digit(c) ==
    CASE c = "0" -> 0 [] c = "1" -> 1 [] c = "2" -> 2 [] c = "3" -> 3
      [] c = "4" -> 4 [] c = "5" -> 5 [] c = "6" -> 6 [] c = "7" -> 7
      [] c = "8" -> 8 [] c = "9" -> 9

from_digit(d) ==
    CASE d = 0 -> "0" [] d = 1 -> "1" [] d = 2 -> "2" [] d = 3 -> "3"
      [] d = 4 -> "4" [] d = 5 -> "5" [] d = 6 -> "6" [] d = 7 -> "7"
      [] d = 8 -> "8" [] d = 9 -> "9"

\* Display of a usize ("{}"): decimal, no leading zeros
RECURSIVE fmt_usize(_)
fmt_usize(n) ==
    IF n < 10 THEN from_digit(n)
    ELSE fmt_usize(n \div 10) \o from_digit(n % 10)

\* char::escape_debug, as "{:?}" applies it to each character of a str
escape_debug(c) ==
    IF c = "\"" THEN "\\\""
    ELSE IF c = "\\" THEN "\\\\"
    ELSE c

\* Debug of a str ("{:?}"): the escaped characters between double quotes
RECURSIVE fmt_debug_chars(_)
fmt_debug_chars(s) ==
    IF s = <<>> THEN ""
    ELSE escape_debug(Head(s)) \o fmt_debug_chars(Tail(s))

fmt_debug(s) == "\"" \o fmt_debug_chars(s) \o "\""

\* str::split(','): the pieces between commas; n commas give n + 1 pieces
RECURSIVE split_from(_, _, _)
split_from(s, i, cur) ==
    IF i > Len(s) THEN <<cur>>
    ELSE IF s[i] = "," THEN <<cur>> \o split_from(s, i + 1, <<>>)
    ELSE split_from(s, i + 1, Append(cur, s[i]))

split(s) == split_from(s, 1, <<>>)

\* str::contains(char)
contains(s, c) == \E i \in 1..Len(s) : s[i] = c

\* value of a digit string, most significant digit first
RECURSIVE digits_value(_, _)
digits_value(s, acc) ==
    IF s = <<>> THEN acc
    ELSE digits_value(Tail(s), (acc * 10) + to_digit(Head(s)))

\* str::parse::<usize>(): an optional leading '+', then one or more decimal
\* digits; no '-' for an unsigned type.  Strings of at most MaxLen digits
\* are far below usize::MAX, so the overflow error cannot arise here.
parse_usize(s) ==
    LET digits == IF s # <<>> /\ Head(s) = "+" THEN Tail(s) ELSE s
    IN  IF digits = <<>> \/ \E i \in 1..Len(digits) : ~is_digit(digits[i])
        THEN Err("invalid digit")
        ELSE Ok(digits_value(digits, 0))

----------------------------------------------------------------------------
(* parse_pos *)

compose_err_msg(s) == "illegal list value: " \o fmt_debug(s)

\* convert_to_range_usize returning the 1-based number unchanged
convert_to_range_usize_one_based(s) ==
    LET r == parse_usize(s)
    IN  IF r.tag = "Err" THEN Err(compose_err_msg(s))
        ELSE IF r.val <= 0 THEN Err(compose_err_msg(s))
        ELSE Ok(r.val)

convert_to_range_usize(s) ==
    LET r == parse_usize(s)
    IN  IF r.tag = "Err" THEN Err(compose_err_msg(s))
        ELSE IF r.val <= 0 THEN Err(compose_err_msg(s))
        ELSE Ok(r.val - 1)

\* greedy \d+ from position i: the last position of the digit run starting
\* at i (i - 1 when s[i] is no digit)
RECURSIVE digit_run_end(_, _)
digit_run_end(s, i) ==
    IF i <= Len(s) /\ is_digit(s[i]) THEN digit_run_end(s, i + 1)
    ELSE i - 1

\* (\d+)-(\d+) matched with its first character at position i
re_match_at(s, i) ==
    LET e1 == digit_run_end(s, i)
    IN  /\ e1 >= i
        /\ e1 + 1 <= Len(s)
        /\ s[e1 + 1] = "-"
        /\ digit_run_end(s, e1 + 2) >= e1 + 2

\* Regex::is_match: the pattern is not anchored, it matches anywhere
re_is_match(s) == \E i \in 1..Len(s) : re_match_at(s, i)

\* Regex::captures: the groups of the leftmost match
re_captures(s) ==
    LET i  == CHOOSE k \in 1..Len(s) :
                  re_match_at(s, k) /\ \A j \in 1..(k - 1) : ~re_match_at(s, j)
        e1 == digit_run_end(s, i)
        e2 == digit_run_end(s, e1 + 2)
    IN  [g1 |-> SubSeq(s, i, e1), g2 |-> SubSeq(s, e1 + 2, e2)]

\* range_order_msg reporting the 0-based indices
range_order_msg_zero_based(start, end) ==
    "First number in range (" \o fmt_usize(start)
        \o ") must be lower than second number (" \o fmt_usize(end) \o ")"

range_order_msg(start, end) ==
    "First number in range (" \o fmt_usize(start + 1)
        \o ") must be lower than second number (" \o fmt_usize(end + 1) \o ")"

\* parse_range_item pushing start..end, the last position left out
parse_range_item_exclusive(item) ==
    IF ~re_is_match(item) THEN Err(compose_err_msg(item))
    ELSE LET cap   == re_captures(item)
             start == convert_to_range_usize(cap.g1)
             end   == convert_to_range_usize(cap.g2)
         IN  IF start.tag = "Err" THEN start
             ELSE IF end.tag = "Err" THEN end
             ELSE IF start.val >= end.val
                  THEN Err(range_order_msg(start.val, end.val))
             ELSE Ok(Range(start.val, end.val))

\* parse_range_item without the order check
parse_range_item_unordered(item) ==
    IF ~re_is_match(item) THEN Err(compose_err_msg(item))
    ELSE LET cap   == re_captures(item)
             start == convert_to_range_usize(cap.g1)
             end   == convert_to_range_usize(cap.g2)
         IN  IF start.tag = "Err" THEN start
             ELSE IF end.tag = "Err" THEN end
             ELSE Ok(Range(start.val, end.val + 1))

\* parse_range_item reporting the whole item when an endpoint is not a
\* position
parse_range_item_whole_token(item) ==
    IF ~re_is_match(item) THEN Err(compose_err_msg(item))
    ELSE LET cap   == re_captures(item)
             start == convert_to_range_usize(cap.g1)
             end   == convert_to_range_usize(cap.g2)
         IN  IF start.tag = "Err" \/ end.tag = "Err"
             THEN Err(compose_err_msg(item))
             ELSE IF start.val >= end.val
                  THEN Err(range_order_msg(start.val, end.val))
             ELSE Ok(Range(start.val, end.val + 1))

\* the hyphenated branch of the loop body (the Err arm of the match)
parse_range_item(item) ==
    IF ~re_is_match(item) THEN Err(compose_err_msg(item))
    ELSE LET cap   == re_captures(item)
             start == convert_to_range_usize(cap.g1)
             end   == convert_to_range_usize(cap.g2)
         IN  IF start.tag = "Err" THEN start
             ELSE IF end.tag = "Err" THEN end
             ELSE IF start.val >= end.val
                  THEN Err(range_order_msg(start.val, end.val))
             ELSE Ok(Range(start.val, end.val + 1))

\* parse_item without the '+' check
parse_item_no_plus_check(item) ==
    LET r == convert_to_range_usize(item)
    IN  IF r.tag = "Ok" THEN Ok(Range(r.val, r.val + 1))
        ELSE parse_range_item(item)

\* one iteration of the loop over the comma-separated items: Ok(range to
\* push) or the error the function returns with
parse_item(item) ==
    IF contains(item, "+") THEN Err(compose_err_msg(item))
    ELSE LET r == convert_to_range_usize(item)
         IN  IF r.tag = "Ok" THEN Ok(Range(r.val, r.val + 1))
             ELSE parse_range_item(item)

\* parse_pos_loop leaving out a range that is already in the list
RECURSIVE parse_pos_loop_dedup(_, _, _)
parse_pos_loop_dedup(items, k, pos) ==
    IF k > Len(items) THEN Ok(pos)
    ELSE LET r == parse_item(items[k])
         IN  IF r.tag = "Err" THEN r
             ELSE IF \E j \in 1..Len(pos) : pos[j] = r.val
                  THEN parse_pos_loop_dedup(items, k + 1, pos)
             ELSE parse_pos_loop_dedup(items, k + 1, Append(pos, r.val))

RECURSIVE parse_pos_loop(_, _, _)
parse_pos_loop(items, k, pos) ==
    IF k > Len(items) THEN Ok(pos)
    ELSE LET r == parse_item(items[k])
         IN  IF r.tag = "Err" THEN r
             ELSE parse_pos_loop(items, k + 1, Append(pos, r.val))

parse_pos(s) == parse_pos_loop(split(s), 1, <<>>)

----------------------------------------------------------------------------
(* UTF-8: a String holds the UTF-8 bytes of its characters *)

\* char::encode_utf8, as String::push applies it
encode_utf8(cp) ==
    IF cp < 128 THEN <<cp>>
    ELSE IF cp < 2048 THEN <<192 + (cp \div 64), 128 + (cp % 64)>>
    ELSE IF cp < 65536
         THEN <<224 + (cp \div 4096), 128 + ((cp \div 64) % 64),
                128 + (cp % 64)>>
    ELSE <<240 + (cp \div 262144), 128 + ((cp \div 4096) % 64),
           128 + ((cp \div 64) % 64), 128 + (cp % 64)>>

\* the UTF-8 bytes of a sequence of characters
RECURSIVE str_from_chars(_)
str_from_chars(cs) ==
    IF cs = <<>> THEN <<>>
    ELSE encode_utf8(Head(cs)) \o str_from_chars(Tail(cs))

\* width of the encoded character a lead byte starts
utf8_char_width(b) ==
    IF b < 128 THEN 1 ELSE IF b < 224 THEN 2 ELSE IF b < 240 THEN 3 ELSE 4

\* the character encoded by the first bytes of a valid UTF-8 string
next_code_point(bytes) ==
    LET b == bytes[1]
        w == utf8_char_width(b)
    IN  IF w = 1 THEN b
        ELSE IF w = 2 THEN ((b % 32) * 64) + (bytes[2] % 64)
        ELSE IF w = 3
             THEN ((b % 16) * 4096) + ((bytes[2] % 64) * 64) + (bytes[3] % 64)
        ELSE ((b % 8) * 262144) + ((bytes[2] % 64) * 4096)
                 + ((bytes[3] % 64) * 64) + (bytes[4] % 64)

\* str::chars().collect(): the characters of a valid UTF-8 string
RECURSIVE str_chars(_)
str_chars(bytes) ==
    IF bytes = <<>> THEN <<>>
    ELSE <<next_code_point(bytes)>>
             \o str_chars(SubSeq(bytes, utf8_char_width(bytes[1]) + 1, Len(bytes)))

----------------------------------------------------------------------------
(* extract_chars *)

\* the inner loop: for i in range, push chars[i] when there is one
RECURSIVE extract_chars_range(_, _, _, _)
extract_chars_range(chars, i, end, result) ==
    IF i >= end THEN result
    ELSE IF i < Len(chars)
         THEN extract_chars_range(chars, i + 1, end,
                                  result \o encode_utf8(chars[i + 1]))
    ELSE extract_chars_range(chars, i + 1, end, result)

\* the outer loop over the ranges of char_pos
RECURSIVE extract_chars_loop(_, _, _, _)
extract_chars_loop(chars, char_pos, k, result) ==
    IF k > Len(char_pos) THEN result
    ELSE extract_chars_loop(chars, char_pos, k + 1,
             extract_chars_range(chars, char_pos[k].start, char_pos[k].end,
                                 result))

\* extract_chars indexing the bytes of the line instead of its characters
extract_chars_by_byte(ln, char_pos) ==
    extract_chars_loop(ln, char_pos, 1, <<>>)

extract_chars(ln, char_pos) ==
    extract_chars_loop(str_chars(ln), char_pos, 1, <<>>)

----------------------------------------------------------------------------
(* extract_fields *)

\* filter_map_get yielding an empty field for an index the record lacks
RECURSIVE filter_map_get_padded(_, _, _)
filter_map_get_padded(rec, i, end) ==
    IF i >= end THEN <<>>
    ELSE IF i < Len(rec)
         THEN <<rec[i + 1]>> \o filter_map_get_padded(rec, i + 1, end)
    ELSE <<"">> \o filter_map_get_padded(rec, i + 1, end)

\* range.filter_map(|i| record.get(i)): the fields at the indices of the
\* range that the record has
RECURSIVE filter_map_get(_, _, _)
filter_map_get(rec, i, end) ==
    IF i >= end THEN <<>>
    ELSE IF i < Len(rec) THEN <<rec[i + 1]>> \o filter_map_get(rec, i + 1, end)
    ELSE filter_map_get(rec, i + 1, end)

\* String::from(&str)
string_from(s) == s

\* field_pos.iter().cloned().flat_map(...).map(String::from).collect()
RECURSIVE flat_map_fields(_, _, _)
flat_map_fields(rec, field_pos, k) ==
    IF k > Len(field_pos) THEN <<>>
    ELSE LET got == filter_map_get(rec, field_pos[k].start, field_pos[k].end)
         IN  [j \in 1..Len(got) |-> string_from(got[j])]
                 \o flat_map_fields(rec, field_pos, k + 1)

extract_fields(rec, field_pos) == flat_map_fields(rec, field_pos, 1)

----------------------------------------------------------------------------
(* extract_bytes *)

\* range.filter_map(|i| bytes.get(i)): the bytes at the indices of the range
\* that the line has
RECURSIVE filter_map_bytes(_, _, _)
filter_map_bytes(bytes, i, end) ==
    IF i >= end THEN <<>>
    ELSE IF i < Len(bytes)
         THEN <<bytes[i + 1]>> \o filter_map_bytes(bytes, i + 1, end)
    ELSE filter_map_bytes(bytes, i + 1, end)

\* byte_pos.iter().cloned().flat_map(...).cloned().collect()
RECURSIVE flat_map_bytes(_, _, _)
flat_map_bytes(bytes, byte_pos, k) ==
    IF k > Len(byte_pos) THEN <<>>
    ELSE filter_map_bytes(bytes, byte_pos[k].start, byte_pos[k].end)
             \o flat_map_bytes(bytes, byte_pos, k + 1)

\* U+FFFD REPLACEMENT CHARACTER in UTF-8
REPLACEMENT == <<239, 191, 189>>

\* a continuation byte 10xxxxxx
is_continuation(b) == 128 <= b /\ b <= 191

\* the byte at position i, 0 past the end (the decoder's safe_get)
safe_get(v, i) == IF i <= Len(v) THEN v[i] ELSE 0

\* the decoder's table of sequence widths by first byte: 0 for a byte that
\* cannot start a sequence
utf8_width_table(b) ==
    IF b < 128 THEN 1
    ELSE IF 194 <= b /\ b <= 223 THEN 2
    ELSE IF 224 <= b /\ b <= 239 THEN 3
    ELSE IF 240 <= b /\ b <= 244 THEN 4
    ELSE 0

\* the second byte a three- or four-byte sequence allows after its first
second_byte_ok(b, c) ==
    IF b = 224 THEN 160 <= c /\ c <= 191
    ELSE IF b = 237 THEN 128 <= c /\ c <= 159
    ELSE IF b = 240 THEN 144 <= c /\ c <= 191
    ELSE IF b = 244 THEN 128 <= c /\ c <= 143
    ELSE is_continuation(c)

\* the chunk of the lossy decoder that starts at position i: a valid
\* sequence, or the invalid bytes one U+FFFD stands for
utf8_chunk(v, i) ==
    LET b == v[i]
        w == utf8_width_table(b)
    IN  IF w = 1 THEN [valid |-> TRUE, len |-> 1]
        ELSE IF w = 0 THEN [valid |-> FALSE, len |-> 1]
        ELSE IF w = 2
             THEN IF is_continuation(safe_get(v, i + 1))
                  THEN [valid |-> TRUE, len |-> 2]
                  ELSE [valid |-> FALSE, len |-> 1]
        ELSE IF ~second_byte_ok(b, safe_get(v, i + 1))
             THEN [valid |-> FALSE, len |-> 1]
        ELSE IF ~is_continuation(safe_get(v, i + 2))
             THEN [valid |-> FALSE, len |-> 2]
        ELSE IF w = 3 THEN [valid |-> TRUE, len |-> 3]
        ELSE IF ~is_continuation(safe_get(v, i + 3))
             THEN [valid |-> FALSE, len |-> 3]
        ELSE [valid |-> TRUE, len |-> 4]

\* from_utf8_lossy giving one U+FFFD for a whole run of invalid bytes
RECURSIVE from_utf8_lossy_per_run(_, _, _)
from_utf8_lossy_per_run(v, i, after_invalid) ==
    IF i > Len(v) THEN <<>>
    ELSE LET c == utf8_chunk(v, i)
         IN  IF c.valid
             THEN SubSeq(v, i, i + c.len - 1)
                      \o from_utf8_lossy_per_run(v, i + c.len, FALSE)
             ELSE (IF after_invalid THEN <<>> ELSE REPLACEMENT)
                      \o from_utf8_lossy_per_run(v, i + c.len, TRUE)

\* String::from_utf8_lossy from position i on: valid sequences are copied,
\* each invalid chunk becomes one U+FFFD.  after_invalid tells whether the
\* chunk before was invalid; the decoder makes no use of it.
RECURSIVE from_utf8_lossy(_, _, _)
from_utf8_lossy(v, i, after_invalid) ==
    IF i > Len(v) THEN <<>>
    ELSE LET c == utf8_chunk(v, i)
         IN  IF c.valid
             THEN SubSeq(v, i, i + c.len - 1)
                      \o from_utf8_lossy(v, i + c.len, FALSE)
             ELSE REPLACEMENT \o from_utf8_lossy(v, i + c.len, TRUE)

extract_bytes(ln, byte_pos) ==
    from_utf8_lossy(flat_map_bytes(ln, byte_pos, 1), 1, FALSE)

----------------------------------------------------------------------------
(* get_args *)

\* Option<T>: None is <<>>, Some(v) is <<v>>
None == <<>>

Some(v) == <<v>>

\* Display of a str ("{}"): its characters as they are
RECURSIVE fmt_display(_)
fmt_display(s) ==
    IF s = <<>> THEN "" ELSE Head(s) \o fmt_display(Tail(s))

\* the selection options given on the command line
supplied(a) == {n \in {"bytes", "chars", "fields"} : a[n] # None}

\* conflicts_with_all as the three options declare it
conflicts_with_all ==
    [bytes  |-> {"chars", "fields"},
     chars  |-> {"bytes", "fields"},
     fields |-> {"bytes", "chars"}]

\* clap_conflict with no conflict declared
clap_conflict_none(a) == FALSE

\* get_matches finds an option given together with one it conflicts with
clap_conflict(a) ==
    \E n \in supplied(a) : conflicts_with_all[n] \cap supplied(a) # {}

\* get_matches ends the process with a usage error: get_args never returns
ClapExit == [tag |-> "Exit", code |-> 2]

\* files: the operands given, "-" when there is none (default_value)
files_or_default(a) == IF a.files = <<>> THEN <<"-">> ELSE a.files

delimiter_err_msg(delimiter) ==
    "--delim \"" \o fmt_display(delimiter) \o "\" must be a single byte"

required_err_msg ==
    "the following required arguments were not provided:\n  "
        \o "<--fields <FIELDS>|--bytes <BYTES>|--chars <CHARS>>"

\* Config { files, delimiter, extract }
Config(files, delimiter, mode, pos) ==
    [files |-> files, delimiter |-> delimiter,
     extract |-> [mode |-> mode, pos |-> pos]]

\* the arm of the if-else chain for the option given: Bytes(parse_pos(range)?)
\* and the like, then Ok(Config {..})
extract_arm(a, mode, selector) ==
    LET p == parse_pos(selector)
    IN  IF p.tag = "Err" THEN p
        ELSE Ok(Config(files_or_default(a), a.delimiter[1], mode, p.val))

\* get_args keeping an empty position list when parse_pos fails
get_args_ignoring_parse_error(a) ==
    IF clap_conflict(a) THEN ClapExit
    ELSE IF Len(a.delimiter) # 1 THEN Err(delimiter_err_msg(a.delimiter))
    ELSE LET mode == IF a.bytes # None THEN "Bytes"
                     ELSE IF a.chars # None THEN "Chars" ELSE "Fields"
             sel  == IF a.bytes # None THEN a.bytes
                     ELSE IF a.chars # None THEN a.chars ELSE a.fields
         IN  IF sel = None THEN Err(required_err_msg)
             ELSE LET p == parse_pos(sel[1])
                  IN  Ok(Config(files_or_default(a), a.delimiter[1], mode,
                                IF p.tag = "Ok" THEN p.val ELSE <<>>))

\* get_args: the delimiter is a string of one-byte characters here, so its
\* length in bytes is its length
get_args(a) ==
    IF clap_conflict(a) THEN ClapExit
    ELSE IF Len(a.delimiter) # 1 THEN Err(delimiter_err_msg(a.delimiter))
    ELSE IF a.bytes # None THEN extract_arm(a, "Bytes", a.bytes[1])
    ELSE IF a.chars # None THEN extract_arm(a, "Chars", a.chars[1])
    ELSE IF a.fields # None THEN extract_arm(a, "Fields", a.fields[1])
    ELSE Err(required_err_msg)

----------------------------------------------------------------------------
(* run *)

\* the byte of a one-byte delimiter character
byte_of(c) == IF c = "\t" THEN 9 ELSE IF c = "," THEN 44 ELSE 0

\* open: standard input for "-", File::open otherwise
open(fs, filename) ==
    IF filename = "-" THEN Ok(fs["-"].rows)
    ELSE IF ~fs[filename].exists
         THEN Err("No such file or directory (os error 2)")
    ELSE Ok(fs[filename].rows)

\* the csv reader's record of a line without quotes: the pieces between
\* delimiter bytes
RECURSIVE csv_fields_from(_, _, _, _)
csv_fields_from(bytes, d, i, cur) ==
    IF i > Len(bytes) THEN <<cur>>
    ELSE IF bytes[i] = d
         THEN <<cur>> \o csv_fields_from(bytes, d, i + 1, <<>>)
    ELSE csv_fields_from(bytes, d, i + 1, Append(cur, bytes[i]))

csv_fields(bytes, d) == csv_fields_from(bytes, d, 1, <<>>)

\* the csv writer's line for a record of fields without special bytes: the
\* fields joined by the delimiter, "" for a record without fields, then \n
RECURSIVE csv_join(_, _)
csv_join(fields, d) ==
    IF Len(fields) = 1 THEN fields[1]
    ELSE fields[1] \o <<d>> \o csv_join(Tail(fields), d)

csv_line(fields, d) ==
    IF fields = <<>> THEN <<34, 34, 10>> ELSE csv_join(fields, d) \o <<10>>

\* println!("{}", s)
println(s) == s \o <<10>>

\* eprintln!("{}: {}", filename, err)
open_err_report(filename, err) == filename \o ": " \o err

\* the file of the current iteration of run's loop
current_file == config.val.files[file_idx]

\* the next item the reader of the current file yields
current_row == open(fsys, current_file).val[row_idx]

----------------------------------------------------------------------------
(* grepr: find_lines *)

\* BufRead::read_line: the characters from position i up to and including
\* the next newline, or up to the end of the stream; none at the end
RECURSIVE read_line(_, _)
read_line(data, i) ==
    IF i > Len(data) THEN <<>>
    ELSE IF data[i] = "\n" THEN <<"\n">>
    ELSE <<data[i]>> \o read_line(data, i + 1)

\* Regex::is_match of a pattern without metacharacters
is_match(pat, text) ==
    \E i \in 1..(Len(text) + 1) :
        /\ i + Len(pat) - 1 <= Len(text)
        /\ SubSeq(text, i, i + Len(pat) - 1) = pat

\* find_lines' loop without line.clear()
RECURSIVE find_lines_loop_no_clear(_, _, _, _, _, _)
find_lines_loop_no_clear(f, pat, invert, i, line_buf, acc) ==
    LET got == read_line(f.data, i)
        ln  == line_buf \o got
    IN  IF got = <<>>
        THEN IF f.broken THEN Err("stream did not contain valid UTF-8")
             ELSE Ok(acc)
        ELSE find_lines_loop_no_clear(f, pat, invert, i + Len(got), ln,
                 IF is_match(pat, ln) # invert THEN Append(acc, ln) ELSE acc)

\* find_lines' loop: read_line appends to line; Ok(0) ends the loop, an error
\* returns through `?`; a kept line is cloned into matches; line is cleared
RECURSIVE find_lines_loop(_, _, _, _, _, _)
find_lines_loop(f, pat, invert, i, line_buf, acc) ==
    LET got == read_line(f.data, i)
        ln  == line_buf \o got
    IN  IF got = <<>>
        THEN IF f.broken THEN Err("stream did not contain valid UTF-8")
             ELSE Ok(acc)
        ELSE find_lines_loop(f, pat, invert, i + Len(got), <<>>,
                 IF is_match(pat, ln) # invert THEN Append(acc, ln) ELSE acc)

find_lines(f, pat, invert) == find_lines_loop(f, pat, invert, 1, <<>>, <<>>)

----------------------------------------------------------------------------
(* grepr: find_files *)

\* path.replace("\\", "/")
replace_backslash(p) == [i \in 1..Len(p) |-> IF p[i] = "\\" THEN "/" ELSE p[i]]

\* std::fs::metadata in the file system of the model: what kind of thing the
\* path names, or the error
metadata(p) ==
    IF p = <<"f">> THEN Ok("file")
    ELSE IF p = <<"d">> THEN Ok("dir")
    ELSE IF p = <<"d", "/", "g">> THEN Ok("file")
    ELSE IF p = <<"p">> THEN Ok("other")
    ELSE Err("No such file or directory (os error 2)")

\* the regular files WalkDir finds under a directory
walkdir_files(p) == IF p = <<"d">> THEN << <<"d", "/", "g">> >> ELSE <<>>

RECURSIVE find_files_loop(_, _, _, _)
find_files_loop(ps, recurse, k, acc) ==
    IF k > Len(ps) THEN acc
    ELSE LET path == replace_backslash(ps[k])
             md   == metadata(path)
             walk == walkdir_files(path)
         IN  find_files_loop(ps, recurse, k + 1,
                 IF path = <<"-">> THEN Append(acc, Ok(path))
                 ELSE IF md.tag = "Err"
                      THEN Append(acc, Err(fmt_display(path) \o ": " \o md.err))
                 ELSE IF md.val = "file" THEN Append(acc, Ok(path))
                 ELSE IF md.val = "dir" /\ recurse
                      THEN acc \o [j \in 1..Len(walk) |-> Ok(walk[j])]
                 ELSE IF md.val = "dir"
                      THEN Append(acc,
                               Err(fmt_display(path) \o " is a directory"))
                 ELSE acc)

find_files(ps, recurse) == find_files_loop(ps, recurse, 1, <<>>)

----------------------------------------------------------------------------
(* uniqr: run *)

\* str::trim_end over the characters of the model
RECURSIVE trim_end(_)
trim_end(s) ==
    IF s # <<>> /\ s[Len(s)] \in {" ", "\n"}
    THEN trim_end(SubSeq(s, 1, Len(s) - 1))
    ELSE s

\* the decimal digits of a usize, as characters
RECURSIVE usize_chars(_)
usize_chars(n) ==
    IF n < 10 THEN <<from_digit(n)>>
    ELSE Append(usize_chars(n \div 10), from_digit(n % 10))

\* "{:4}" of a usize: right-aligned in four columns
fmt_width4(n) ==
    LET d == usize_chars(n)
    IN  [i \in 1..(IF Len(d) < 4 THEN 4 - Len(d) ELSE 0) |-> " "] \o d

\* the closure write: nothing for count 0, else one write! of the text,
\* after the count when config.count is set
write(o, count_opt, count, text) ==
    IF count > 0
    THEN IF count_opt
         THEN Append(o, fmt_width4(count) \o <<" ">> \o text)
         ELSE Append(o, text)
    ELSE o

\* run's loop; before and count start as "" and 0
RECURSIVE uniq_loop(_, _, _, _, _, _)
uniq_loop(data, count_opt, i, before, count, o) ==
    LET got == read_line(data, i)
    IN  IF got = <<>> THEN write(o, count_opt, count, before)
        ELSE IF trim_end(got) # trim_end(before)
             THEN uniq_loop(data, count_opt, i + Len(got), got, 1,
                            write(o, count_opt, count, before))
        ELSE uniq_loop(data, count_opt, i + Len(got), before, count + 1, o)

\* run: what it wrote and what it returned
uniq_run(input, count_opt) ==
    IF input.content.tag = "Err"
    THEN [written |-> <<>>,
          ret |-> Err(input.name \o ": " \o input.content.err)]
    ELSE [written |-> uniq_loop(input.content.val, count_opt, 1, <<>>, 0, <<>>),
          ret |-> Ok(<<>>)]

----------------------------------------------------------------------------
(* headr: run, show_bytes, show_lines *)

\* open: standard input for "-", File::open otherwise
head_open(fs, filename) ==
    IF filename = "-" THEN Ok(fs["-"].data)
    ELSE IF ~fs[filename].exists
         THEN Err("No such file or directory (os error 2)")
    ELSE Ok(fs[filename].data)

\* what print! and println! put on standard output: text, or decoded bytes
Printed(text) == [text |-> text]

PrintedBytes(b) == [bytes |-> b]

\* show_bytes: read_exact fills the whole buffer or fails; on failure the
\* report goes to standard error and nothing is printed, and Ok(()) either
\* way
show_bytes(reader, n) ==
    IF Len(reader) < n
    THEN [out |-> <<>>,
          err |-> <<"headr: error reading 'stdin': failed to fill whole buffer">>,
          ret |-> Ok(<<>>)]
    ELSE [out |-> <<PrintedBytes(from_utf8_lossy(SubSeq(reader, 1, n), 1, FALSE))>>,
          err |-> <<>>,
          ret |-> Ok(<<>>)]

\* BufRead::read_line over bytes: from position i up to and including the
\* next newline, or up to the end
RECURSIVE read_line_bytes(_, _)
read_line_bytes(data, i) ==
    IF i > Len(data) THEN <<>>
    ELSE IF data[i] = 10 THEN <<10>>
    ELSE <<data[i]>> \o read_line_bytes(data, i + 1)

\* the bytes are the UTF-8 of some string: lossy decoding leaves them alone
is_utf8(v) == from_utf8_lossy(v, 1, FALSE) = v

\* show_lines: up to `lines` times read_line and print; a line that is not
\* UTF-8 returns the error through `?`
RECURSIVE show_lines_loop(_, _, _, _, _)
show_lines_loop(reader, lines, i, k, printed) ==
    IF k >= lines THEN [out |-> printed, err |-> <<>>, ret |-> Ok(<<>>)]
    ELSE LET got == read_line_bytes(reader, i)
         IN  IF ~is_utf8(got)
             THEN [out |-> printed, err |-> <<>>,
                   ret |-> Err("stream did not contain valid UTF-8")]
             ELSE IF got = <<>>
                  THEN [out |-> printed, err |-> <<>>, ret |-> Ok(<<>>)]
             ELSE show_lines_loop(reader, lines, i + Len(got), k + 1,
                                  Append(printed, PrintedBytes(got)))

show_lines(reader, lines) == show_lines_loop(reader, lines, 1, 0, <<>>)

\* the header run prints before a file when there are several
head_banner(cfg, i) ==
    IF Len(cfg.files) > 1
    THEN (IF i > 1 THEN <<Printed("\n")>> ELSE <<>>)
             \o <<Printed("==> " \o cfg.files[i] \o " <==\n")>>
    ELSE <<>>

\* what run does with the stream of the file of the current iteration
head_show(cfg, reader) ==
    IF cfg.bytes # None THEN show_bytes(reader, cfg.bytes[1])
    ELSE show_lines(reader, cfg.lines)

----------------------------------------------------------------------------
(* Variables a specification makes no use of stay at these values *)

IdleCut ==
    /\ range = <<>>
    /\ ret = [tag |-> "None"]
    /\ line = <<>>
    /\ record = <<>>
    /\ positions = <<>>
    /\ out = <<>>

IdleRun ==
    /\ argv = <<>>
    /\ fsys = <<>>
    /\ config = [tag |-> "None"]
    /\ file_idx = 0
    /\ row_idx = 0
    /\ wbuf = <<>>
    /\ stdout = <<>>
    /\ stderr = <<>>
    /\ run_ret = [tag |-> "None"]
    /\ opens = <<>>

IdleGrep ==
    /\ file = <<>>
    /\ pattern = <<>>
    /\ matches = [tag |-> "None"]
    /\ matches_inv = [tag |-> "None"]
    /\ paths = <<>>
    /\ recursive = FALSE
    /\ entries = <<>>

IdleUniq ==
    /\ in_file = <<>>
    /\ count_flag = FALSE
    /\ written = <<>>
    /\ uniq_ret = [tag |-> "None"]

----------------------------------------------------------------------------
(* Specification of parse_pos: a selector string is chosen, then parsed *)

InitParse ==
    /\ pc = "call"
    /\ range \in Selectors
    /\ ret = NoResult
    /\ line = <<>>
    /\ record = <<>>
    /\ positions = <<>>
    /\ out = <<>>
    /\ IdleRun
    /\ IdleGrep
    /\ IdleUniq

CallParsePos ==
    /\ pc = "call"
    /\ ret' = parse_pos(range)
    /\ pc' = "done"
    /\ UNCHANGED <<range, line, record, positions, out>>
    /\ UNCHANGED runVars
    /\ UNCHANGED <<grepVars, uniqVars>>

NextParse == CallParsePos

SpecParse == InitParse /\ [][NextParse]_vars

----------------------------------------------------------------------------
(* Specification of extract_chars: a line and a position list are chosen, *)
(* then the characters are extracted                                       *)

InitChars ==
    /\ pc = "call"
    /\ range = <<>>
    /\ ret = NoResult
    /\ line \in {str_from_chars(cs) : cs \in Texts}
    /\ record = <<>>
    /\ positions \in PositionLists
    /\ out = <<>>
    /\ IdleRun
    /\ IdleGrep
    /\ IdleUniq

CallExtractChars ==
    /\ pc = "call"
    /\ out' = extract_chars(line, positions)
    /\ pc' = "done"
    /\ UNCHANGED <<range, ret, line, record, positions>>
    /\ UNCHANGED runVars
    /\ UNCHANGED <<grepVars, uniqVars>>

NextChars == CallExtractChars

SpecChars == InitChars /\ [][NextChars]_vars

----------------------------------------------------------------------------
(* Specification of extract_fields: a record and a position list are      *)
(* chosen, then the fields are extracted                                   *)

InitFields ==
    /\ pc = "call"
    /\ range = <<>>
    /\ ret = NoResult
    /\ line = <<>>
    /\ record \in Records
    /\ positions \in PositionLists
    /\ out = <<>>
    /\ IdleRun
    /\ IdleGrep
    /\ IdleUniq

CallExtractFields ==
    /\ pc = "call"
    /\ out' = extract_fields(record, positions)
    /\ pc' = "done"
    /\ UNCHANGED <<range, ret, line, record, positions>>
    /\ UNCHANGED runVars
    /\ UNCHANGED <<grepVars, uniqVars>>

NextFields == CallExtractFields

SpecFields == InitFields /\ [][NextFields]_vars

----------------------------------------------------------------------------
(* Specification of extract_bytes: a line and a position list are chosen, *)
(* then the bytes are extracted                                            *)

InitBytes ==
    /\ pc = "call"
    /\ range = <<>>
    /\ ret = NoResult
    /\ line \in {str_from_chars(cs) : cs \in Texts}
    /\ record = <<>>
    /\ positions \in PositionLists
    /\ out = <<>>
    /\ IdleRun
    /\ IdleGrep
    /\ IdleUniq

CallExtractBytes ==
    /\ pc = "call"
    /\ out' = extract_bytes(line, positions)
    /\ pc' = "done"
    /\ UNCHANGED <<range, ret, line, record, positions>>
    /\ UNCHANGED runVars
    /\ UNCHANGED <<grepVars, uniqVars>>

NextBytes == CallExtractBytes

SpecBytes == InitBytes /\ [][NextBytes]_vars

----------------------------------------------------------------------------
(* Specification of get_args: a command line is chosen, then get_args runs *)

InitArgs ==
    /\ pc = "call"
    /\ IdleCut
    /\ argv \in ArgLines
    /\ fsys = <<>>
    /\ config = [tag |-> "None"]
    /\ file_idx = 0
    /\ row_idx = 0
    /\ wbuf = <<>>
    /\ stdout = <<>>
    /\ stderr = <<>>
    /\ run_ret = [tag |-> "None"]
    /\ opens = <<>>
    /\ IdleGrep
    /\ IdleUniq

CallGetArgs ==
    /\ pc = "call"
    /\ config' = get_args(argv)
    /\ pc' = "done"
    /\ UNCHANGED cutVars
    /\ UNCHANGED <<argv, fsys, file_idx, row_idx, wbuf, stdout, stderr,
                   run_ret, opens>>
    /\ UNCHANGED <<grepVars, uniqVars>>

NextArgs == CallGetArgs

SpecArgs == InitArgs /\ [][NextArgs]_vars

----------------------------------------------------------------------------
(* Specification of a cutr process: main calls get_args and, with the     *)
(* Config it returns, run; run goes through the files, and through the    *)
(* lines or records of each file it could open                            *)

InitCut ==
    /\ pc = "main"
    /\ IdleCut
    /\ argv \in CutArgLines
    /\ fsys \in FileSystems
    /\ config = [tag |-> "None"]
    /\ file_idx = 0
    /\ row_idx = 0
    /\ wbuf = <<>>
    /\ stdout = <<>>
    /\ stderr = <<>>
    /\ run_ret = [tag |-> "None"]
    /\ opens = <<>>
    /\ IdleGrep
    /\ IdleUniq

GetArgs ==
    /\ pc = "main"
    /\ config' = get_args(argv)
    /\ pc' = "args_done"
    /\ UNCHANGED cutVars
    /\ UNCHANGED <<argv, fsys, file_idx, row_idx, wbuf, stdout, stderr,
                   run_ret, opens>>
    /\ UNCHANGED <<grepVars, uniqVars>>

\* main: get_args failed, the error goes to standard error and the process
\* ends (clap has printed its own usage error and ended it already)
MainArgsFailed ==
    /\ pc = "args_done"
    /\ config.tag # "Ok"
    /\ stderr' = IF config.tag = "Err" THEN Append(stderr, config.err)
                 ELSE Append(stderr, "error: usage")
    /\ pc' = "exit"
    /\ UNCHANGED cutVars
    /\ UNCHANGED <<argv, fsys, config, file_idx, row_idx, wbuf, stdout,
                   run_ret, opens>>
    /\ UNCHANGED <<grepVars, uniqVars>>

\* main: get_args returned a Config, run is called with it
MainCallsRun ==
    /\ pc = "args_done"
    /\ config.tag = "Ok"
    /\ file_idx' = 1
    /\ pc' = "open"
    /\ UNCHANGED cutVars
    /\ UNCHANGED <<argv, fsys, config, row_idx, wbuf, stdout, stderr,
                   run_ret, opens>>
    /\ UNCHANGED <<grepVars, uniqVars>>

\* OpenFails returning the error, as open(filename)? would
OpenFailsReturns ==
    /\ pc = "open"
    /\ file_idx <= Len(config.val.files)
    /\ open(fsys, current_file).tag = "Err"
    /\ opens' = Append(opens, current_file)
    /\ run_ret' = open(fsys, current_file)
    /\ pc' = "returned"
    /\ UNCHANGED cutVars
    /\ UNCHANGED <<argv, fsys, config, file_idx, row_idx, wbuf, stdout,
                   stderr>>
    /\ UNCHANGED <<grepVars, uniqVars>>

\* run: the file cannot be opened, the error is reported and the loop goes
\* on with the next file
OpenFails ==
    /\ pc = "open"
    /\ file_idx <= Len(config.val.files)
    /\ open(fsys, current_file).tag = "Err"
    /\ opens' = Append(opens, current_file)
    /\ stderr' = Append(stderr,
                        open_err_report(current_file,
                                        open(fsys, current_file).err))
    /\ file_idx' = file_idx + 1
    /\ UNCHANGED cutVars
    /\ UNCHANGED <<pc, argv, fsys, config, row_idx, wbuf, stdout, run_ret>>
    /\ UNCHANGED <<grepVars, uniqVars>>

\* run: the file is opened; in field mode a reader and a writer are built
OpenSucceeds ==
    /\ pc = "open"
    /\ file_idx <= Len(config.val.files)
    /\ open(fsys, current_file).tag = "Ok"
    /\ opens' = Append(opens, current_file)
    /\ row_idx' = 1
    /\ wbuf' = <<>>
    /\ pc' = "read"
    /\ UNCHANGED cutVars
    /\ UNCHANGED <<argv, fsys, config, file_idx, stdout, stderr, run_ret>>
    /\ UNCHANGED <<grepVars, uniqVars>>

\* run: the reader yields a line or record; what is extracted from it is
\* printed (byte and character mode) or handed to the csv writer
ReadRow ==
    /\ pc = "read"
    /\ row_idx <= Len(open(fsys, current_file).val)
    /\ current_row.tag = "Ok"
    /\ LET ext == config.val.extract
           d   == byte_of(config.val.delimiter)
       IN  IF ext.mode = "Fields"
           THEN /\ wbuf' = Append(wbuf,
                      csv_line(extract_fields(csv_fields(current_row.val, d),
                                              ext.pos), d))
                /\ UNCHANGED stdout
           ELSE IF ext.mode = "Bytes"
           THEN /\ stdout' = Append(stdout,
                                 println(extract_bytes(current_row.val, ext.pos)))
                /\ UNCHANGED wbuf
           ELSE /\ stdout' = Append(stdout,
                                 println(extract_chars(current_row.val, ext.pos)))
                /\ UNCHANGED wbuf
    /\ row_idx' = row_idx + 1
    /\ UNCHANGED cutVars
    /\ UNCHANGED <<pc, argv, fsys, config, file_idx, stderr, run_ret, opens>>
    /\ UNCHANGED <<grepVars, uniqVars>>

\* ReadFails going on with the next line or record of the file
ReadFailsSkipsRow ==
    /\ pc = "read"
    /\ row_idx <= Len(open(fsys, current_file).val)
    /\ current_row.tag = "Err"
    /\ row_idx' = row_idx + 1
    /\ UNCHANGED cutVars
    /\ UNCHANGED <<pc, argv, fsys, config, file_idx, wbuf, stdout, stderr,
                   run_ret, opens>>
    /\ UNCHANGED <<grepVars, uniqVars>>

\* run: the reader yields an error; record? and line? return it from run.
\* The csv writer is dropped on the way out, which flushes its buffer.
ReadFails ==
    /\ pc = "read"
    /\ row_idx <= Len(open(fsys, current_file).val)
    /\ current_row.tag = "Err"
    /\ run_ret' = current_row
    /\ stdout' = stdout \o wbuf
    /\ wbuf' = <<>>
    /\ pc' = "returned"
    /\ UNCHANGED cutVars
    /\ UNCHANGED <<argv, fsys, config, file_idx, row_idx, stderr, opens>>
    /\ UNCHANGED <<grepVars, uniqVars>>

\* run: the file is read to its end; the csv writer is dropped, which
\* flushes its buffer, and the loop goes on with the next file
EndOfFile ==
    /\ pc = "read"
    /\ row_idx > Len(open(fsys, current_file).val)
    /\ stdout' = stdout \o wbuf
    /\ wbuf' = <<>>
    /\ file_idx' = file_idx + 1
    /\ pc' = "open"
    /\ UNCHANGED cutVars
    /\ UNCHANGED <<argv, fsys, config, row_idx, stderr, run_ret, opens>>
    /\ UNCHANGED <<grepVars, uniqVars>>

\* run: no file is left, Ok(())
RunReturns ==
    /\ pc = "open"
    /\ file_idx > Len(config.val.files)
    /\ run_ret' = Ok(<<>>)
    /\ pc' = "returned"
    /\ UNCHANGED cutVars
    /\ UNCHANGED <<argv, fsys, config, file_idx, row_idx, wbuf, stdout,
                   stderr, opens>>
    /\ UNCHANGED <<grepVars, uniqVars>>

\* main: run returned; an error goes to standard error; the process ends
MainRunReturned ==
    /\ pc = "returned"
    /\ stderr' = IF run_ret.tag = "Err" THEN Append(stderr, run_ret.err)
                 ELSE stderr
    /\ pc' = "exit"
    /\ UNCHANGED cutVars
    /\ UNCHANGED <<argv, fsys, config, file_idx, row_idx, wbuf, stdout,
                   run_ret, opens>>
    /\ UNCHANGED <<grepVars, uniqVars>>

NextCut ==
    \/ GetArgs
    \/ MainArgsFailed
    \/ MainCallsRun
    \/ OpenFails
    \/ OpenSucceeds
    \/ ReadRow
    \/ ReadFails
    \/ EndOfFile
    \/ RunReturns
    \/ MainRunReturned

SpecCut == InitCut /\ [][NextCut]_vars

----------------------------------------------------------------------------
(* Specification of find_lines: a stream and a pattern are chosen, then    *)
(* find_lines is called on them without and with invert_match, as          *)
(* test_find_lines does                                                    *)

InitLines ==
    /\ pc = "call"
    /\ IdleCut
    /\ IdleRun
    /\ IdleUniq
    /\ file \in GrepFiles
    /\ pattern \in Patterns
    /\ matches = [tag |-> "None"]
    /\ matches_inv = [tag |-> "None"]
    /\ paths = <<>>
    /\ recursive = FALSE
    /\ entries = <<>>

CallFindLines ==
    /\ pc = "call"
    /\ matches' = find_lines(file, pattern, FALSE)
    /\ pc' = "call_inv"
    /\ UNCHANGED <<file, pattern, matches_inv, paths, recursive, entries>>
    /\ UNCHANGED <<cutVars, runVars, uniqVars>>

CallFindLinesInverted ==
    /\ pc = "call_inv"
    /\ matches_inv' = find_lines(file, pattern, TRUE)
    /\ pc' = "done"
    /\ UNCHANGED <<file, pattern, matches, paths, recursive, entries>>
    /\ UNCHANGED <<cutVars, runVars, uniqVars>>

NextLines ==
    \/ CallFindLines
    \/ CallFindLinesInverted

SpecLines == InitLines /\ [][NextLines]_vars

----------------------------------------------------------------------------
(* Specification of find_files: paths and the flag are chosen, then        *)
(* find_files is called                                                    *)

InitFiles ==
    /\ pc = "call"
    /\ IdleCut
    /\ IdleRun
    /\ IdleUniq
    /\ file = <<>>
    /\ pattern = <<>>
    /\ matches = [tag |-> "None"]
    /\ matches_inv = [tag |-> "None"]
    /\ paths \in PathLists
    /\ recursive \in BOOLEAN
    /\ entries = <<>>

CallFindFiles ==
    /\ pc = "call"
    /\ entries' = find_files(paths, recursive)
    /\ pc' = "done"
    /\ UNCHANGED <<file, pattern, matches, matches_inv, paths, recursive>>
    /\ UNCHANGED <<cutVars, runVars, uniqVars>>

NextFiles == CallFindFiles

SpecFiles == InitFiles /\ [][NextFiles]_vars

----------------------------------------------------------------------------
(* Specification of uniqr's run: an input and config.count are chosen,     *)
(* then run is called                                                      *)

InitUniq ==
    /\ pc = "call"
    /\ IdleCut
    /\ IdleRun
    /\ IdleGrep
    /\ in_file \in UniqInputs
    /\ count_flag \in BOOLEAN
    /\ written = <<>>
    /\ uniq_ret = [tag |-> "None"]

CallUniqRun ==
    /\ pc = "call"
    /\ written' = uniq_run(in_file, count_flag).written
    /\ uniq_ret' = uniq_run(in_file, count_flag).ret
    /\ pc' = "done"
    /\ UNCHANGED <<in_file, count_flag>>
    /\ UNCHANGED <<cutVars, runVars, grepVars>>

NextUniq == CallUniqRun

SpecUniq == InitUniq /\ [][NextUniq]_vars

----------------------------------------------------------------------------
(* Specification of headr's run: a Config and the inputs are chosen, then  *)
(* run goes through the files, one iteration of its loop per step          *)

InitHead ==
    /\ pc = "head"
    /\ IdleCut
    /\ IdleGrep
    /\ IdleUniq
    /\ argv = <<>>
    /\ fsys \in HeadFileSystems
    /\ config \in HeadConfigs
    /\ file_idx = 1
    /\ row_idx = 0
    /\ wbuf = <<>>
    /\ stdout = <<>>
    /\ stderr = <<>>
    /\ run_ret = [tag |-> "None"]
    /\ opens = <<>>

\* run: the file cannot be opened, the error is reported and the loop goes on
HeadOpenFails ==
    /\ pc = "head"
    /\ file_idx <= Len(config.files)
    /\ head_open(fsys, config.files[file_idx]).tag = "Err"
    /\ opens' = Append(opens, config.files[file_idx])
    /\ stderr' = Append(stderr,
                        "headr: " \o config.files[file_idx] \o ": "
                            \o head_open(fsys, config.files[file_idx]).err)
    /\ file_idx' = file_idx + 1
    /\ UNCHANGED <<pc, argv, fsys, config, row_idx, wbuf, stdout, run_ret>>
    /\ UNCHANGED <<cutVars, grepVars, uniqVars>>

\* run: the file is opened, the header is printed when there are several
\* files, and show_bytes or show_lines returns Ok
HeadShow ==
    /\ pc = "head"
    /\ file_idx <= Len(config.files)
    /\ head_open(fsys, config.files[file_idx]).tag = "Ok"
    /\ LET r == head_show(config, head_open(fsys, config.files[file_idx]).val)
       IN  /\ r.ret.tag = "Ok"
           /\ stdout' = stdout \o head_banner(config, file_idx) \o r.out
           /\ stderr' = stderr \o r.err
    /\ opens' = Append(opens, config.files[file_idx])
    /\ file_idx' = file_idx + 1
    /\ UNCHANGED <<pc, argv, fsys, config, row_idx, wbuf, run_ret>>
    /\ UNCHANGED <<cutVars, grepVars, uniqVars>>

\* run: show_lines returns an error, which `?` returns from run
HeadShowFails ==
    /\ pc = "head"
    /\ file_idx <= Len(config.files)
    /\ head_open(fsys, config.files[file_idx]).tag = "Ok"
    /\ LET r == head_show(config, head_open(fsys, config.files[file_idx]).val)
       IN  /\ r.ret.tag = "Err"
           /\ stdout' = stdout \o head_banner(config, file_idx) \o r.out
           /\ stderr' = stderr \o r.err
           /\ run_ret' = r.ret
    /\ opens' = Append(opens, config.files[file_idx])
    /\ pc' = "returned"
    /\ UNCHANGED <<argv, fsys, config, file_idx, row_idx, wbuf>>
    /\ UNCHANGED <<cutVars, grepVars, uniqVars>>

\* run: no file is left, Ok(())
HeadRunReturns ==
    /\ pc = "head"
    /\ file_idx > Len(config.files)
    /\ run_ret' = Ok(<<>>)
    /\ pc' = "returned"
    /\ UNCHANGED <<argv, fsys, config, file_idx, row_idx, wbuf, stdout, stderr,
                   opens>>
    /\ UNCHANGED <<cutVars, grepVars, uniqVars>>

NextHead ==
    \/ HeadOpenFails
    \/ HeadShow
    \/ HeadShowFails
    \/ HeadRunReturns

SpecHead == InitHead /\ [][NextHead]_vars

----------------------------------------------------------------------------
(* Vocabulary of the claims about parse_pos, stated on the selector string *)
(* itself and not through the parser's own helpers                        *)

DecDigits == <<"0", "1", "2", "3", "4", "5", "6", "7", "8", "9">>

IsDecDigit(c) == \E d \in 1..10 : DecDigits[d] = c

DigitOf(c) == (CHOOSE d \in 1..10 : DecDigits[d] = c) - 1

\* positions that delimit the tokens: before the string, each comma, after it
Delimiters(s) == {0, Len(s) + 1} \cup {i \in 1..Len(s) : s[i] = ","}

NumTokens(s) == Cardinality(Delimiters(s)) - 1

\* the k-th delimiter, counted from 1
Delimiter(s, k) ==
    CHOOSE p \in Delimiters(s) :
        Cardinality({q \in Delimiters(s) : q < p}) = k - 1

\* the k-th comma-separated token
TokenAt(s, k) == SubSeq(s, Delimiter(s, k) + 1, Delimiter(s, k + 1) - 1)

AllDigits(t) == t # <<>> /\ \A i \in 1..Len(t) : IsDecDigit(t[i])

\* grammar (a): a non-empty sequence of decimal digits
IsBareToken(t) == AllDigits(t)

\* grammar (b): digits, exactly one hyphen, digits
IsHyphenToken(t) ==
    \E j \in 1..Len(t) :
        /\ t[j] = "-"
        /\ AllDigits(SubSeq(t, 1, j - 1))
        /\ AllDigits(SubSeq(t, j + 1, Len(t)))

HyphenAt(t) == CHOOSE j \in 1..Len(t) : t[j] = "-"

FirstPart(t) == SubSeq(t, 1, HyphenAt(t) - 1)

SecondPart(t) == SubSeq(t, HyphenAt(t) + 1, Len(t))

\* the number a digit string denotes
RECURSIVE DecimalValue(_)
DecimalValue(t) ==
    IF t = <<>> THEN 0
    ELSE (DecimalValue(SubSeq(t, 1, Len(t) - 1)) * 10) + DigitOf(t[Len(t)])

\* a digit string without its leading zeros (of a number >= 1)
RECURSIVE StripZeros(_)
StripZeros(t) ==
    IF t # <<>> /\ Head(t) = "0" THEN StripZeros(Tail(t)) ELSE t

\* the characters of t as one string
RECURSIVE Text(_)
Text(t) == IF t = <<>> THEN "" ELSE Head(t) \o Text(Tail(t))

Quoted(t) == "\"" \o Text(t) \o "\""

\* a token the grammar of the specification accepts
ValidToken(t) ==
    \/ IsBareToken(t) /\ DecimalValue(t) >= 1
    \/ /\ IsHyphenToken(t)
       /\ DecimalValue(FirstPart(t)) >= 1
       /\ DecimalValue(FirstPart(t)) < DecimalValue(SecondPart(t))

\* every token before the k-th is accepted by the grammar
ValidBefore(s, k) == \A j \in 1..(k - 1) : ValidToken(TokenAt(s, j))

Parsed == pc = "done"

----------------------------------------------------------------------------
(* Claims about parse_pos, checked under SpecParse *)

\* C1: parse_pos returns an error for every selector string in which some
\* comma-separated token is neither a non-empty digit sequence nor exactly
\* digits, one hyphen, digits; tokens with extra text around a
\* digits-hyphen-digits core never produce a range.
C1_StructuralGrammar ==
    (Parsed /\ \E k \in 1..NumTokens(range) :
                   /\ ~IsBareToken(TokenAt(range, k))
                   /\ ~IsHyphenToken(TokenAt(range, k)))
        => ret.tag = "Err"

\* C2: a bare digit token of value v >= 1 yields exactly the range
\* [v-1, v) at its place in the list, and a selector made of such a token
\* alone succeeds; an empty token or a digit token of value 0 makes
\* parse_pos fail, with the message  illegal list value: "<token>"  quoting
\* the token as written when it is the first token that fails.
C2_BareToken ==
    Parsed =>
        \A k \in 1..NumTokens(range) :
            LET t == TokenAt(range, k)
            IN  /\ (IsBareToken(t) /\ DecimalValue(t) >= 1) =>
                      /\ NumTokens(range) = 1 => ret.tag = "Ok"
                      /\ ret.tag = "Ok" =>
                            /\ Len(ret.val) >= k
                            /\ ret.val[k] =
                                   Range(DecimalValue(t) - 1, DecimalValue(t))
                /\ (t = <<>> \/ (IsBareToken(t) /\ DecimalValue(t) = 0)) =>
                      /\ ret.tag = "Err"
                      /\ ValidBefore(range, k) =>
                            ret.err = "illegal list value: " \o Quoted(t)

C2_Witness ==
    /\ Parsed
    /\ ret.tag = "Ok"
    /\ \E k \in 1..NumTokens(range) :
           /\ IsBareToken(TokenAt(range, k))
           /\ Head(TokenAt(range, k)) = "0"
           /\ DecimalValue(TokenAt(range, k)) = 12
           /\ ret.val[k] = Range(11, 12)

\* C3: a hyphenated token N-M with digit-only parts and 1 <= N < M yields
\* exactly the half-open range [N-1, M) at its place in the list, and a
\* selector whose tokens the grammar all accepts succeeds.
C3_HyphenRange ==
    Parsed =>
        \A k \in 1..NumTokens(range) :
            LET t == TokenAt(range, k)
            IN  (/\ IsHyphenToken(t)
                 /\ DecimalValue(FirstPart(t)) >= 1
                 /\ DecimalValue(FirstPart(t)) < DecimalValue(SecondPart(t))) =>
                    /\ (\A j \in 1..NumTokens(range) :
                            ValidToken(TokenAt(range, j))) => ret.tag = "Ok"
                    /\ ret.tag = "Ok" =>
                          /\ Len(ret.val) >= k
                          /\ ret.val[k] = Range(DecimalValue(FirstPart(t)) - 1,
                                                DecimalValue(SecondPart(t)))

C3_Witness ==
    /\ Parsed
    /\ ret.tag = "Ok"
    /\ \E k \in 1..NumTokens(range) :
           /\ IsHyphenToken(TokenAt(range, k))
           /\ DecimalValue(FirstPart(TokenAt(range, k))) = 2
           /\ DecimalValue(SecondPart(TokenAt(range, k))) = 12
           /\ ret.val[k] = Range(1, 12)

\* C4: a hyphenated token N-M whose parts are both >= 1 and where N >= M
\* makes parse_pos fail, no list is returned, and when it is the first token
\* that fails the message is exactly "First number in range (N) must be
\* lower than second number (M)" with N and M free of leading zeros.
C4_RangeOrder ==
    Parsed =>
        \A k \in 1..NumTokens(range) :
            LET t == TokenAt(range, k)
            IN  (/\ IsHyphenToken(t)
                 /\ DecimalValue(SecondPart(t)) >= 1
                 /\ DecimalValue(FirstPart(t)) >= DecimalValue(SecondPart(t))) =>
                    /\ ret.tag = "Err"
                    /\ ValidBefore(range, k) =>
                          ret.err = "First number in range ("
                                      \o Text(StripZeros(FirstPart(t)))
                                      \o ") must be lower than second number ("
                                      \o Text(StripZeros(SecondPart(t)))
                                      \o ")"

C4_Witness ==
    /\ Parsed
    /\ range = <<"0", "2", "-", "0", "1">>
    /\ ret = Err("First number in range (2) must be lower than second number (1)")

\* C5: a token that contains '+' at any position is rejected before any
\* numeric or range interpretation: parse_pos fails, and when it is the
\* first token that fails the message is  illegal list value: "<token>"
\* quoting the whole token.
C5_PlusRejected ==
    Parsed =>
        \A k \in 1..NumTokens(range) :
            LET t == TokenAt(range, k)
            IN  (\E i \in 1..Len(t) : t[i] = "+") =>
                    /\ ret.tag = "Err"
                    /\ ValidBefore(range, k) =>
                          ret.err = "illegal list value: " \o Quoted(t)

C5_Witness ==
    /\ Parsed
    /\ range = <<"+", "1", "-", "2">>
    /\ ret = Err("illegal list value: \"+1-2\"")

\* C6: when parse_pos succeeds on a selector with k comma-separated tokens,
\* the list has exactly k ranges and the i-th range is the one the i-th
\* token produces when parsed alone: nothing is sorted, merged or dropped.
C6_OrderPreserved ==
    (Parsed /\ ret.tag = "Ok") =>
        /\ Len(ret.val) = NumTokens(range)
        /\ \A k \in 1..NumTokens(range) :
               parse_pos(TokenAt(range, k)) = Ok(<<ret.val[k]>>)

C6_Witness ==
    /\ Parsed
    /\ ret.tag = "Ok"
    /\ Len(ret.val) = 3
    /\ ret.val[1] = ret.val[3]
    /\ ret.val[2].start < ret.val[1].start

\* C7: parsing is all-or-nothing: if any token of the selector is invalid,
\* parse_pos returns an error and no ranges, whatever precedes or follows
\* the token; and a successful list is never empty.
C7_AllOrNothing ==
    Parsed =>
        /\ (\E k \in 1..NumTokens(range) : ~ValidToken(TokenAt(range, k)))
               => ret.tag = "Err"
        /\ ret.tag = "Ok" => ret.val # <<>>

\* C8: every range of a successfully returned list has start < end; a token
\* without a hyphen gives width exactly 1, a token with a hyphen width at
\* least 2.
C8_RangesNonEmpty ==
    (Parsed /\ ret.tag = "Ok") =>
        \A k \in 1..Len(ret.val) :
            /\ ret.val[k].start < ret.val[k].end
            /\ IF \E i \in 1..Len(TokenAt(range, k)) : TokenAt(range, k)[i] = "-"
               THEN ret.val[k].end - ret.val[k].start >= 2
               ELSE ret.val[k].end - ret.val[k].start = 1

C8_Witness ==
    /\ Parsed
    /\ ret.tag = "Ok"
    /\ \E j, k \in 1..Len(ret.val) :
           /\ ret.val[j].end - ret.val[j].start = 1
           /\ ret.val[k].end - ret.val[k].start >= 2

----------------------------------------------------------------------------
(* Vocabulary of the claims about extraction *)

\* the indices a position list walks: range by range, ascending in a range
RECURSIVE IndexWalk(_)
IndexWalk(pos) ==
    IF pos = <<>> THEN <<>>
    ELSE [i \in 1..(Head(pos).end - Head(pos).start) |-> Head(pos).start + i - 1]
             \o IndexWalk(Tail(pos))

\* the elements of seq at the walked indices that seq has, in walk order
Selected(seq, pos) ==
    LET inside == SelectSeq(IndexWalk(pos), LAMBDA i : i < Len(seq))
    IN  [k \in 1..Len(inside) |-> seq[inside[k] + 1]]

\* the (range, index) pairs of a position list whose index is below n
PairsBelow(pos, n) ==
    {<<k, i>> \in (1..Len(pos)) \X (0..(MaxEnd + 1)) :
        pos[k].start <= i /\ i < pos[k].end /\ i < n}

Extracted == pc = "done"

----------------------------------------------------------------------------
(* Claims about extract_chars, checked under SpecChars *)

\* C9: extract_chars returns the concatenation, over the ranges in list
\* order and the indices of each range in ascending order, of the line's
\* character at that index when the line has one; the output is made of
\* whole characters of the input, a multi-byte character is never split.
C9_ExtractChars ==
    Extracted =>
        \A cs \in Texts :
            str_from_chars(cs) = line =>
                out = str_from_chars(Selected(cs, positions))

C9_Witness ==
    /\ Extracted
    /\ line = <<227, 129, 130, 195, 169>>
    /\ positions = <<Range(1, 3), Range(0, 1)>>
    /\ out = <<195, 169, 227, 129, 130>>

----------------------------------------------------------------------------
(* Claims about extract_fields, checked under SpecFields *)

\* C10: extract_fields returns the fields at the listed indices in range
\* order then ascending index order; a field covered by several ranges
\* appears once per covering, an index at or beyond the field count adds
\* nothing, so the output has one field per (range, index) pair with
\* index < field count.
C10_ExtractFields ==
    Extracted =>
        /\ out = Selected(record, positions)
        /\ Len(out) = Cardinality(PairsBelow(positions, Len(record)))

C10_Witness ==
    /\ Extracted
    /\ record = <<"x", "">>
    /\ positions = <<Range(1, 3), Range(0, 2)>>
    /\ out = <<"", "x", "">>

----------------------------------------------------------------------------
(* Vocabulary of the claims about extract_bytes: well-formed UTF-8 stated  *)
(* by the value a sequence encodes, not by the decoder's table            *)

Marker == <<239, 191, 189>>

IsCont(b) == b \in 128..191

\* the width a first byte announces, 0 for a byte that announces none
WidthOf(b) ==
    IF b < 128 THEN 1
    ELSE IF b \in 192..223 THEN 2
    ELSE IF b \in 224..239 THEN 3
    ELSE IF b \in 240..247 THEN 4
    ELSE 0

\* the number a sequence of the announced width encodes
EncodedValue(q) ==
    IF Len(q) = 1 THEN q[1]
    ELSE IF Len(q) = 2 THEN ((q[1] - 192) * 64) + (q[2] - 128)
    ELSE IF Len(q) = 3
         THEN ((q[1] - 224) * 4096) + ((q[2] - 128) * 64) + (q[3] - 128)
    ELSE ((q[1] - 240) * 262144) + ((q[2] - 128) * 4096)
             + ((q[3] - 128) * 64) + (q[4] - 128)

\* the smallest number that needs a sequence of n bytes
MinValue(n) == IF n = 1 THEN 0 ELSE IF n = 2 THEN 128
               ELSE IF n = 3 THEN 2048 ELSE 65536

\* q is the encoding of one character: shortest form, no surrogate, at
\* most U+10FFFF
WellFormed(q) ==
    /\ q # <<>>
    /\ Len(q) = WidthOf(q[1])
    /\ \A m \in 2..Len(q) : IsCont(q[m])
    /\ EncodedValue(q) >= MinValue(Len(q))
    /\ EncodedValue(q) <= 1114111
    /\ EncodedValue(q) \notin 55296..57343

\* a whole character starts at position i of c
CompleteAt(c, i) ==
    /\ WidthOf(c[i]) > 0
    /\ i + WidthOf(c[i]) - 1 <= Len(c)
    /\ WellFormed(SubSeq(c, i, i + WidthOf(c[i]) - 1))

\* position i is a later byte of a whole character
InsideChar(c, i) ==
    \E j \in 1..(i - 1) : CompleteAt(c, j) /\ j + WidthOf(c[j]) - 1 >= i

InvalidAt(c, i) == ~CompleteAt(c, i) /\ ~InsideChar(c, i)

\* q followed by as many bytes 0x80 as its first byte still announces
Padded(q) == q \o [m \in 1..(WidthOf(q[1]) - Len(q)) |-> 128]

\* position i continues the beginning of a character that started at an
\* earlier invalid position: the bytes from there to i begin some
\* well-formed sequence but the sequence is not completed
ContinuesPrefix(c, i) ==
    \E j \in 1..(i - 1) :
        /\ InvalidAt(c, j)
        /\ i - j + 1 < WidthOf(c[j])
        /\ \A m \in (j + 1)..i : IsCont(c[m])
        /\ WellFormed(Padded(SubSeq(c, j, i)))

\* what position i contributes when every maximal run of invalid bytes
\* gives one marker
PiecePerRun(c, i) ==
    IF CompleteAt(c, i) THEN SubSeq(c, i, i + WidthOf(c[i]) - 1)
    ELSE IF InsideChar(c, i) THEN <<>>
    ELSE IF i > 1 /\ InvalidAt(c, i - 1) THEN <<>>
    ELSE Marker

\* what position i contributes when every maximal invalid subpart (the
\* uncompleted beginning of a character, or one byte that begins none)
\* gives one marker
PiecePerSubpart(c, i) ==
    IF CompleteAt(c, i) THEN SubSeq(c, i, i + WidthOf(c[i]) - 1)
    ELSE IF InsideChar(c, i) THEN <<>>
    ELSE IF ContinuesPrefix(c, i) THEN <<>>
    ELSE Marker

RECURSIVE DecodedPerRun(_, _)
DecodedPerRun(c, i) ==
    IF i > Len(c) THEN <<>> ELSE PiecePerRun(c, i) \o DecodedPerRun(c, i + 1)

RECURSIVE DecodedPerSubpart(_, _)
DecodedPerSubpart(c, i) ==
    IF i > Len(c) THEN <<>>
    ELSE PiecePerSubpart(c, i) \o DecodedPerSubpart(c, i + 1)

----------------------------------------------------------------------------
(* Claims about extract_bytes, checked under SpecBytes *)

\* C11 as stated: extract_bytes collects the line's bytes at the in-range
\* listed indices (range order, ascending index) and decodes them so that
\* every maximal run of collected bytes that is not valid UTF-8 becomes
\* exactly one U+FFFD, valid sequences decoding to their characters.
C11_OneMarkerPerRun ==
    Extracted => out = DecodedPerRun(Selected(line, positions), 1)

\* C11 as amended: the collected bytes are decoded so that every maximal
\* invalid subpart -- the uncompleted beginning of a character, or a single
\* byte that begins none -- becomes exactly one U+FFFD, so a run of invalid
\* bytes can give several markers; valid sequences decode to their
\* characters and the function never fails.
C11_OneMarkerPerSubpart ==
    Extracted => out = DecodedPerSubpart(Selected(line, positions), 1)

C11_Witness ==
    /\ Extracted
    /\ line = <<227, 129, 130, 97>>
    /\ positions = <<Range(1, 3), Range(0, 2)>>
    /\ out = Marker \o Marker \o Marker


----------------------------------------------------------------------------
(* Claims about get_args, checked under SpecArgs *)

Supplied == {n \in {"bytes", "chars", "fields"} : argv[n] # <<>>}

VariantOf(n) == IF n = "bytes" THEN "Bytes"
                ELSE IF n = "chars" THEN "Chars" ELSE "Fields"

\* C12: configuration succeeds only when exactly one of the byte, character
\* and field selection strings is supplied; two or three are a
\* configuration error; none is a configuration error, with the
\* required-arguments message naming the three options unless the delimiter
\* error comes first; in every successful Config the Extract variant is the
\* one of the single supplied option.
C12_ExactlyOneSelector ==
    pc = "done" =>
        /\ config.tag = "Ok" =>
               /\ Cardinality(Supplied) = 1
               /\ \A n \in Supplied : config.val.extract.mode = VariantOf(n)
        /\ Cardinality(Supplied) >= 2 => config.tag \in {"Err", "Exit"}
        /\ Cardinality(Supplied) = 0 =>
               /\ config.tag = "Err"
               /\ Len(argv.delimiter) = 1 =>
                      config.err =
                          "the following required arguments were not provided:\n  <--fields <FIELDS>|--bytes <BYTES>|--chars <CHARS>>"

C12_Witness ==
    /\ pc = "done"
    /\ Supplied = {"chars"}
    /\ config.tag = "Ok"
    /\ config.val.extract = [mode |-> "Chars", pos |-> <<Range(0, 2)>>]


----------------------------------------------------------------------------
(* The order of the checks of parse_pos, checked under SpecParse *)

\* digits, a hyphen, digits somewhere inside the token
HasCore(t) ==
    \E j \in 2..(Len(t) - 1) :
        t[j] = "-" /\ IsDecDigit(t[j - 1]) /\ IsDecDigit(t[j + 1])

\* the index of the leftmost token the grammar rejects (0 when there is
\* none)
FirstRejected(s) ==
    LET bad == {k \in 1..NumTokens(s) : ~ValidToken(TokenAt(s, k))}
    IN  IF bad = {} THEN 0 ELSE CHOOSE k \in bad : \A j \in bad : k <= j

\* the message for a rejected token: the whole token when it holds a '+' or
\* is not hyphenated; in a hyphenated token the first endpoint as written
\* when it is zero, else the second endpoint as written when it is zero,
\* else the range-order message
RejectionMessage(t) ==
    IF \E i \in 1..Len(t) : t[i] = "+"
    THEN "illegal list value: " \o Quoted(t)
    ELSE IF ~IsHyphenToken(t) THEN "illegal list value: " \o Quoted(t)
    ELSE IF DecimalValue(FirstPart(t)) = 0
         THEN "illegal list value: " \o Quoted(FirstPart(t))
    ELSE IF DecimalValue(SecondPart(t)) = 0
         THEN "illegal list value: " \o Quoted(SecondPart(t))
    ELSE "First number in range (" \o Text(StripZeros(FirstPart(t)))
             \o ") must be lower than second number ("
             \o Text(StripZeros(SecondPart(t))) \o ")"

\* C19: parse_pos returns the error of the leftmost token the grammar
\* rejects, whatever comes after it; for a hyphenated token that error is
\* illegal list value of the first endpoint as written when that is zero,
\* else of the second endpoint as written when that is zero, and the
\* range-order error only when both are positions. (Tokens that hold
\* digits-hyphen-digits inside other characters are those of C1 and are
\* left out.)
C19_LeftmostError ==
    (Parsed /\ FirstRejected(range) # 0) =>
        LET t == TokenAt(range, FirstRejected(range))
        IN  (IsHyphenToken(t) \/ ~HasCore(t) \/ \E i \in 1..Len(t) : t[i] = "+")
                => ret = [tag |-> "Err", err |-> RejectionMessage(t)]

C19_Witness ==
    /\ Parsed
    /\ range = <<"2", "-", "1", ",", "a">>
    /\ FirstRejected(range) = 1
    /\ ret = [tag |-> "Err",
              err |-> "First number in range (2) must be lower than second number (1)"]

----------------------------------------------------------------------------
(* Vocabulary of the claims about a cutr process *)

\* the selector string of the single selection option
TheSelector == argv[CHOOSE n \in Supplied : TRUE][1]

\* every token of the selector is accepted by the grammar
SelectorValid(s) == \A k \in 1..NumTokens(s) : ValidToken(TokenAt(s, k))

\* the range an accepted token denotes
TokenRange(t) ==
    IF IsBareToken(t)
    THEN [start |-> DecimalValue(t) - 1, end |-> DecimalValue(t)]
    ELSE [start |-> DecimalValue(FirstPart(t)) - 1,
          end |-> DecimalValue(SecondPart(t))]

\* some input has been opened or read, or some output produced
InputTouched ==
    \/ opens # <<>>
    \/ file_idx # 0
    \/ row_idx # 0
    \/ wbuf # <<>>
    \/ stdout # <<>>

Openable(n) == n = "-" \/ fsys[n].exists

NoBadRow(n) == \A r \in 1..Len(fsys[n].rows) : fsys[n].rows[r].tag = "Ok"

\* the reports of the paths of fl that cannot be opened, in order
RECURSIVE OpenReports(_)
OpenReports(fl) ==
    IF fl = <<>> THEN <<>>
    ELSE (IF Openable(Head(fl)) THEN <<>>
          ELSE <<Head(fl) \o ": No such file or directory (os error 2)">>)
         \o OpenReports(Tail(fl))

\* the number of lines or records in the files of fl that can be opened
RECURSIVE RowCount(_)
RowCount(fl) ==
    IF fl = <<>> THEN 0
    ELSE (IF Openable(Head(fl)) THEN Len(fsys[Head(fl)].rows) ELSE 0)
         + RowCount(Tail(fl))

RunEntered == config.tag = "Ok" /\ pc \in {"open", "read", "returned", "exit"}

RunOver == config.tag = "Ok" /\ pc \in {"returned", "exit"}

\* the first file of the list, by index, with a line or record that cannot
\* be read (0 when there is none)
FirstBadFile ==
    LET bad == {i \in 1..Len(config.val.files) :
                   /\ Openable(config.val.files[i])
                   /\ ~NoBadRow(config.val.files[i])}
    IN  IF bad = {} THEN 0 ELSE CHOOSE i \in bad : \A j \in bad : i <= j

\* the first line or record of a file that cannot be read
FirstBadRow(n) ==
    CHOOSE r \in 1..Len(fsys[n].rows) :
        /\ fsys[n].rows[r].tag = "Err"
        /\ \A q \in 1..(r - 1) : fsys[n].rows[q].tag = "Ok"

\* the k-th piece of a line between delimiter bytes d
FieldBreaks(b, d) == {0, Len(b) + 1} \cup {i \in 1..Len(b) : b[i] = d}

FieldAt(b, d, k) ==
    LET brk(j) == CHOOSE p \in FieldBreaks(b, d) :
                      Cardinality({q \in FieldBreaks(b, d) : q < p}) = j - 1
    IN  SubSeq(b, brk(k) + 1, brk(k + 1) - 1)

\* the output line of a record in field mode: the selected fields, joined by
\* the delimiter ("" when none is selected)
RECURSIVE JoinedFields(_, _)
JoinedFields(fs, d) ==
    IF Len(fs) = 1 THEN fs[1]
    ELSE JoinedFields(SubSeq(fs, 1, Len(fs) - 1), d) \o <<d>> \o fs[Len(fs)]

RecordLine(b, d, pos) ==
    LET n   == Cardinality(FieldBreaks(b, d)) - 1
        rec == [k \in 1..n |-> FieldAt(b, d, k)]
        sel == Selected(rec, pos)
    IN  IF sel = <<>> THEN <<34, 34, 10>> ELSE JoinedFields(sel, d) \o <<10>>

\* the output lines of the first m records of a file in field mode
RecordLines(n, m, pos) ==
    [r \in 1..m |-> RecordLine(fsys[n].rows[r].val, 9, pos)]

\* the output lines of all files of fl in field mode
RECURSIVE AllRecordLines(_, _)
AllRecordLines(fl, pos) ==
    IF fl = <<>> THEN <<>>
    ELSE (IF Openable(Head(fl))
          THEN RecordLines(Head(fl), Len(fsys[Head(fl)].rows), pos)
          ELSE <<>>)
         \o AllRecordLines(Tail(fl), pos)

----------------------------------------------------------------------------
(* Claims about a cutr process, checked under SpecCut *)

\* C13: whenever a file has been opened, a record read or output produced,
\* get_args has returned a Config whose position list holds the range of
\* every token of the selector string; and when a token of the selector is
\* not accepted (illegal token or inverted range) get_args returns an error
\* instead of a Config, no file is ever opened and nothing is written to
\* standard output, the only output of the process being that error on
\* standard error.
C13_ParseBeforeInput ==
    /\ InputTouched =>
           /\ config.tag = "Ok"
           /\ Cardinality(Supplied) = 1
           /\ Len(config.val.extract.pos) = NumTokens(TheSelector)
           /\ \A k \in 1..NumTokens(TheSelector) :
                  config.val.extract.pos[k]
                      = TokenRange(TokenAt(TheSelector, k))
    /\ (pc # "main" /\ Cardinality(Supplied) = 1
            /\ ~SelectorValid(TheSelector)) =>
           /\ config.tag = "Err"
           /\ ~InputTouched
           /\ run_ret.tag = "None"
           /\ pc = "exit" => stderr = <<config.err>>

C13_Witness ==
    /\ pc = "exit"
    /\ Supplied = {"fields"}
    /\ TheSelector = <<"2", "-", "1">>
    /\ argv.files = <<"a", "-">>
    /\ fsys["a"].exists
    /\ Len(fsys["a"].rows) = MaxRows
    /\ config.tag = "Err"
    /\ opens = <<>>
    /\ stdout = <<>>

\* C14: in run, the paths are opened in the order of the list; each path
\* that cannot be opened leaves exactly one report "<filename>: <os error>"
\* on standard error, in order, and the loop goes on; when no file that can
\* be opened has an unreadable line or record, run returns Ok however many
\* paths could not be opened, every path of the list has been tried and
\* every line or record of every file that could be opened has given its
\* line of output.
C14_OpenFailureSkipsFile ==
    RunEntered =>
        /\ Len(opens) <= Len(config.val.files)
        /\ opens = SubSeq(config.val.files, 1, Len(opens))
        /\ Len(stderr) >= Len(OpenReports(opens))
        /\ SubSeq(stderr, 1, Len(OpenReports(opens))) = OpenReports(opens)
        /\ (RunOver /\ FirstBadFile = 0) =>
               /\ run_ret = [tag |-> "Ok", val |-> <<>>]
               /\ opens = config.val.files
               /\ stderr = OpenReports(config.val.files)
               /\ Len(stdout) = RowCount(config.val.files)

C14_Witness ==
    /\ pc = "exit"
    /\ config.tag = "Ok"
    /\ config.val.files = <<"a", "-">>
    /\ ~fsys["a"].exists
    /\ Len(fsys["-"].rows) = MaxRows
    /\ NoBadRow("-")
    /\ run_ret.tag = "Ok"
    /\ opens = <<"a", "-">>
    /\ stderr = <<"a: No such file or directory (os error 2)">>
    /\ Len(stdout) = MaxRows

\* C15: in byte and character mode, a line of an opened file that cannot be
\* read does not end the run: when run is over every path of the list has
\* been tried.
C15_ReadErrorSkipsFile ==
    (RunOver /\ config.val.extract.mode \in {"Bytes", "Chars"}) =>
        opens = config.val.files

\* C16: in field mode, when a record of a file cannot be read, run returns
\* that error; the paths after that file are never opened, and standard
\* output holds the lines of the records read before the error, of that
\* file and of the files before it, and nothing else.
C16_RecordErrorEndsRun ==
    (RunOver /\ config.val.extract.mode = "Fields" /\ FirstBadFile # 0) =>
        LET fl  == config.val.files
            f   == FirstBadFile
            pos == config.val.extract.pos
        IN  /\ run_ret = fsys[fl[f]].rows[FirstBadRow(fl[f])]
            /\ opens = SubSeq(fl, 1, f)
            /\ wbuf = <<>>
            /\ stdout = AllRecordLines(SubSeq(fl, 1, f - 1), pos)
                           \o RecordLines(fl[f], FirstBadRow(fl[f]) - 1, pos)
            /\ pc = "exit" =>
                   stderr = OpenReports(SubSeq(fl, 1, f)) \o <<run_ret.err>>

C16_Witness ==
    /\ pc = "exit"
    /\ config.tag = "Ok"
    /\ config.val.extract = [mode |-> "Fields", pos |-> <<[start |-> 0, end |-> 2]>>]
    /\ config.val.files = <<"a", "-">>
    /\ fsys["a"].exists
    /\ Len(fsys["a"].rows) = 2
    /\ fsys["a"].rows[1].tag = "Ok"
    /\ fsys["a"].rows[2].tag = "Err"
    /\ Len(fsys["-"].rows) > 0
    /\ run_ret.tag = "Err"
    /\ opens = <<"a">>
    /\ stdout = <<RowOf("a") \o <<10>> >>


----------------------------------------------------------------------------
(* Vocabulary of the claims about grepr *)

\* the positions where a line of the stream ends: each newline, and the
\* last character when it is not a newline
LineEnds(s) ==
    {i \in 1..Len(s) : s[i] = "\n" \/ i = Len(s)}

NumLines(s) == Cardinality(LineEnds(s))

\* the end of the k-th line (0 for k = 0)
LineEnd(s, k) ==
    IF k = 0 THEN 0
    ELSE CHOOSE p \in LineEnds(s) :
             Cardinality({q \in LineEnds(s) : q <= p}) = k

\* the k-th line, with its terminator when it has one
LineAt(s, k) == SubSeq(s, LineEnd(s, k - 1) + 1, LineEnd(s, k))

\* the pattern occurs in the line
Occurs(p, l) ==
    \E i \in 0..Len(l) : i + Len(p) <= Len(l) /\ SubSeq(l, i + 1, i + Len(p)) = p

\* the lines, from the k-th on, whose matching differs from inv
RECURSIVE KeptFrom(_, _, _, _)
KeptFrom(s, p, inv, k) ==
    IF k > NumLines(s) THEN <<>>
    ELSE (IF Occurs(p, LineAt(s, k)) # inv THEN <<LineAt(s, k)>> ELSE <<>>)
         \o KeptFrom(s, p, inv, k + 1)

\* the indices of the lines in which the pattern occurs
MatchingLines(s, p) == {k \in 1..NumLines(s) : Occurs(p, LineAt(s, k))}

\* a path with every backslash written as a slash
Normalised(p) == [i \in 1..Len(p) |-> IF p[i] = "\\" THEN "/" ELSE p[i]]

----------------------------------------------------------------------------
(* Claims about grepr *)

\* C17 (SpecLines): for every stream that is read without an error and
\* every pattern, find_lines returns, in input order and with their
\* terminators, exactly the lines in which (the pattern matches) differs
\* from invert_match; so the results without and with invert_match are the
\* lines at two disjoint sets of indices that together are all indices, and
\* their lengths sum to the number of lines, a final line without
\* terminator counting as a line.
C17_InvertPartitions ==
    (pc = "done" /\ ~file.broken) =>
        LET s == file.data
            M == MatchingLines(s, pattern)
        IN  /\ matches = [tag |-> "Ok", val |-> KeptFrom(s, pattern, FALSE, 1)]
            /\ matches_inv
                   = [tag |-> "Ok", val |-> KeptFrom(s, pattern, TRUE, 1)]
            /\ Len(matches.val) = Cardinality(M)
            /\ Len(matches_inv.val) = Cardinality((1..NumLines(s)) \ M)
            /\ Len(matches.val) + Len(matches_inv.val) = NumLines(s)

C17_Witness ==
    /\ pc = "done"
    /\ ~file.broken
    /\ file.data = <<"a", "b", "\n", "b">>
    /\ pattern = <<"a", "b">>
    /\ matches.val = << <<"a", "b", "\n">> >>
    /\ matches_inv.val = << <<"b">> >>

\* C18 (SpecFiles): with recursive = false find_files returns exactly one
\* entry per input path, in input order: Ok(path) for "-" and for a regular
\* file, an error for a path that does not exist, the error
\* "<path> is a directory" for a directory.
C18_OneEntryPerPath ==
    (pc = "done" /\ ~recursive) =>
        /\ Len(entries) = Len(paths)
        /\ \A k \in 1..Len(paths) :
               k <= Len(entries) =>
                   LET q  == Normalised(paths[k])
                       md == metadata(q)
                   IN  /\ (q = <<"-">> \/ (md.tag = "Ok" /\ md.val = "file"))
                              => entries[k] = [tag |-> "Ok", val |-> q]
                       /\ (q # <<"-">> /\ md.tag = "Err")
                              => entries[k].tag = "Err"
                       /\ (q # <<"-">> /\ md.tag = "Ok" /\ md.val = "dir")
                              => entries[k]
                                     = [tag |-> "Err",
                                        err |-> Text(q) \o " is a directory"]


----------------------------------------------------------------------------
(* Vocabulary of the claims about uniqr *)

\* a line without its trailing whitespace: its longest prefix that is empty
\* or ends in another character
Trimmed(l) ==
    LET n == CHOOSE m \in 0..Len(l) :
                 /\ m = 0 \/ l[m] \notin {" ", "\n"}
                 /\ \A q \in (m + 1)..Len(l) : l[q] \in {" ", "\n"}
    IN  SubSeq(l, 1, n)

\* the indices of the lines that begin a maximal run of adjacent lines that
\* are equal after trimming
RunStarts(s) ==
    {k \in 1..NumLines(s) :
        k = 1 \/ Trimmed(LineAt(s, k)) # Trimmed(LineAt(s, k - 1))}

\* the index of the line that begins the j-th run; one past the last line
\* for the run after the last
RunStart(s, j) ==
    IF j > Cardinality(RunStarts(s)) THEN NumLines(s) + 1
    ELSE CHOOSE k \in RunStarts(s) :
             Cardinality({q \in RunStarts(s) : q <= k}) = j

RunLength(s, j) == RunStart(s, j + 1) - RunStart(s, j)

\* a count of one digit in four columns
InFourColumns(n) == <<" ", " ", " ", DecDigits[n + 1]>>

\* the entry of the j-th run: the first line of the run as read, after the
\* count when counts are asked for
EntryOf(s, j, counted) ==
    (IF counted THEN InFourColumns(RunLength(s, j)) \o <<" ">> ELSE <<>>)
        \o LineAt(s, RunStart(s, j))

----------------------------------------------------------------------------
(* Claims about uniqr, checked under SpecUniq *)

\* C20: for every input that can be opened, run writes one entry per
\* maximal run of adjacent lines that are equal after trimming trailing
\* whitespace, in input order; the text of each entry is the first line of
\* its run exactly as read, terminator included, and its count the length
\* of the run; runs of blank or whitespace-only lines at the very start of
\* the input included.
C20_OneEntryPerRun ==
    (pc = "done" /\ in_file.content.tag = "Ok") =>
        LET s == in_file.content.val
        IN  /\ uniq_ret.tag = "Ok"
            /\ Len(written) = Cardinality(RunStarts(s))
            /\ \A j \in 1..Cardinality(RunStarts(s)) :
                   j <= Len(written) => written[j] = EntryOf(s, j, count_flag)


----------------------------------------------------------------------------
(* Vocabulary of the claims about headr *)

\* the bytes printed, print by print, prints of nothing left out
RECURSIVE BytesPrinted(_)
BytesPrinted(o) ==
    IF o = <<>> THEN <<>>
    ELSE (IF "bytes" \in DOMAIN Head(o) /\ Head(o).bytes # <<>>
          THEN <<Head(o).bytes>> ELSE <<>>)
         \o BytesPrinted(Tail(o))

\* the first min(n, size) bytes of every file of fl that can be opened, in
\* order, files without bytes left out
RECURSIVE FirstBytes(_, _)
FirstBytes(fl, n) ==
    IF fl = <<>> THEN <<>>
    ELSE (IF Openable(Head(fl)) /\ fsys[Head(fl)].data # <<>>
          THEN LET d == fsys[Head(fl)].data
               IN  <<SubSeq(d, 1, IF n < Len(d) THEN n ELSE Len(d))>>
          ELSE <<>>)
         \o FirstBytes(Tail(fl), n)

\* the reports of the files of fl that cannot be opened, in order
RECURSIVE HeadOpenReports(_)
HeadOpenReports(fl) ==
    IF fl = <<>> THEN <<>>
    ELSE (IF Openable(Head(fl)) THEN <<>>
          ELSE <<"headr: " \o Head(fl)
                     \o ": No such file or directory (os error 2)">>)
         \o HeadOpenReports(Tail(fl))

----------------------------------------------------------------------------
(* Claims about headr, checked under SpecHead *)

\* C21: when a byte count N is configured, run prints for each input that
\* can be opened the first min(N, size) bytes of that input, and an input
\* shorter than N bytes causes no error report: standard error holds the
\* reports of the files that could not be opened and nothing else.
C21_FirstBytesPrinted ==
    (pc = "returned" /\ config.bytes # <<>>) =>
        /\ run_ret.tag = "Ok"
        /\ BytesPrinted(stdout) = FirstBytes(config.files, config.bytes[1])
        /\ stderr = HeadOpenReports(config.files)


====
